---- MODULE Spec2Model ----
(***************************************************************************)
(* beast/plotting/plot_noisemodel.py: plot_noisemodel as a state machine.  *)
(* One run of the function is one behaviour: the arguments are chosen in   *)
(* Init, every action is one block of the function body, and the figure    *)
(* (3 x n_filter axes, their plotted series, their legends) together with  *)
(* the saved-image counter is the observable state.                        *)
(* Python indices are kept 0-based; TLA+ sequences are 1-based, so the     *)
(* element of index i of a Python list s is s[i + 1].                      *)
(***************************************************************************)
EXTENDS Integers, Sequences, FiniteSets, TLC

\* ------------------------------------------------------------------ bounds
MaxFilt == 2    \* most filters in a SED grid
MaxCat == 2     \* longest noise_file_list
MaxObj == 4     \* objects (rows) of the SED grid and of every catalog
MaxSamp == 3    \* largest stride

\* --------------------------------------------------------------- the inputs
\* The SED grid files: a path with no file behind it, and grids of 1..MaxFilt
\* filters (sed_object.filters).
SedFiles ==
    {[exists |-> FALSE, filters |-> 0]}
        \cup {[exists |-> TRUE, filters |-> k] : k \in 1..MaxFilt}

\* The noise-model paths: two existing catalogs, whose names have 1 and 2
\* characters, and one path with no file behind it.
NoisePaths == {"a", "bb", "zz"}

FileExists(path) == path \in {"a", "bb"}

\* noisemodel_vals["error"][i, fv] of the catalog stored at path:
\*   "a":  column 0 all positive; column fv > 0 positive, zero, negative in turn
\*   "bb": column 0 nowhere positive; column fv > 0 positive from row fv + 1 on
NoiseErr(path, i, fv) ==
    IF path = "a"
    THEN IF fv = 0 THEN i + 1 ELSE 1 - ((i + fv) % 3)
    ELSE IF fv = 0 THEN 0 - i ELSE i - fv

\* noise_file_list is a list of paths or one bare path string.
RECURSIVE SeqsUpTo(_, _)
SeqsUpTo(S, k) ==
    IF k = 0 THEN {<<>>}
    ELSE LET shorter == SeqsUpTo(S, k - 1)
         IN  shorter \cup {Append(s, x) : s \in shorter, x \in S}

NoiseFileLists ==
    {[kind |-> "list", val |-> s] : s \in SeqsUpTo(NoisePaths, MaxCat)}
        \cup {[kind |-> "str", val |-> p] : p \in NoisePaths}

SampValues == {-1, 0} \cup 1..MaxSamp

\* color=["black", "red", "gold", "lime", "xkcd:azure"] or a shorter list
Palette == <<"black", "red", "gold", "lime", "xkcd:azure">>
ColorLists == {SubSeq(Palette, 1, 1), SubSeq(Palette, 1, 2), Palette}

\* label=None, or a list of 0..MaxCat+1 labels "L0", "L1", ...
LabelList(k) == [i \in 1..k |-> "L" \o ToString(i - 1)]
LabelValues ==
    {[isNone |-> TRUE, val |-> <<>>]}
        \cup {[isNone |-> FALSE, val |-> LabelList(k)] : k \in 0..(MaxCat + 1)}

\* ------------------------------------------------------------------- state
VARIABLES
    args,         \* the arguments of the call
    pc,           \* position in the function body
    err,          \* the exception that ended the run, if any
    n_filter,     \* len(sed_object.filters)
    fig,          \* TRUE once plt.subplots has made the figure
    catalogs,     \* np.atleast_1d(noise_file_list)
    reads,        \* how many catalog files were read successfully
    n,            \* index of the catalog being processed
    f,            \* index of the filter being processed
    noise_err,    \* noisemodel_vals["error"] of the current catalog
    plot_idx,     \* rows selected for the current catalog and filter
    plot_err,     \* their error values (noise_err[good_err, f][::samp])
    ax,           \* ax[<<row, col>>]: the series plotted in each panel
    axlabel,      \* the label of each Axes object (Axes.set_label)
    leg,          \* the legends created on each panel
    label_reads,  \* the indices at which label was subscripted
    saved         \* number of times fig.savefig completed

vars ==
    <<args, pc, err, n_filter, fig, catalogs, reads, n, f, noise_err,
      plot_idx, plot_err, ax, axlabel, leg, label_reads, saved>>

NoError == [type |-> "none", line |-> 0]

Init ==
    /\ args \in [sed_file : SedFiles,
                 noise_file_list : NoiseFileLists,
                 samp : SampValues,
                 color : ColorLists,
                 label : LabelValues]
    /\ pc = "start"
    /\ err = NoError
    /\ n_filter = 0
    /\ fig = FALSE
    /\ catalogs = <<>>
    /\ reads = 0
    /\ n = 0
    /\ f = 0
    /\ noise_err = <<>>
    /\ plot_idx = <<>>
    /\ plot_err = <<>>
    /\ ax = <<>>
    /\ axlabel = <<>>
    /\ leg = <<>>
    /\ label_reads = {}
    /\ saved = 0

\* ----------------------------------------------------------------- helpers
\* Variant of Raise: the exception is swallowed and the run falls through
\* to the save step.
RaiseSwallowed(type, line) ==
    /\ pc' = "save"
    /\ err' = [type |-> type, line |-> line]

\* An uncaught exception of the given type raised at the given source line:
\* nothing catches it, the call ends there.
Raise(type, line) ==
    /\ pc' = "error"
    /\ err' = [type |-> type, line |-> line]

\* len(x) of a Python list or string
PyLen(x) == Len(x.val)

\* np.atleast_1d: a list becomes the array of its elements, a bare string a
\* one-element array.
AtLeast1d(x) == IF x.kind = "str" THEN <<x.val>> ELSE x.val

\* The panels of plt.subplots(nrows=3, ncols=k): rows 0 (bias), 1 (error),
\* 2 (completeness).
Panels(k) == (0..2) \X (0..(k - 1))

\* plt.subplots squeezes a 3 x 1 grid to a 1-D array, which ax[row, f]
\* cannot index.
Ax2D == n_filter > 1

\* Variant of Where: rows with a zero entry are kept as well.
WhereNonNegative(col) ==
    SelectSeq([i \in 1..MaxObj |-> i - 1], LAMBDA i : col[i] >= 0)

\* np.where(col > 0)[0]: the ascending row indices with a positive entry
Where(col) ==
    SelectSeq([i \in 1..MaxObj |-> i - 1], LAMBDA i : col[i] > 0)

\* Variant of PySlice: the number of elements is rounded down.
PySliceFloor(s, step) ==
    IF step > 0
    THEN [j \in 1..(Len(s) \div step) |-> s[1 + (j - 1) * step]]
    ELSE [j \in 1..(Len(s) \div (0 - step)) |-> s[Len(s) + (j - 1) * step]]

\* s[::step] for step # 0: from the first element on for step > 0, from the
\* last one backwards for step < 0; ceil(len(s) / |step|) elements.
PySlice(s, step) ==
    IF step > 0
    THEN [j \in 1..((Len(s) + step - 1) \div step) |-> s[1 + (j - 1) * step]]
    ELSE [j \in 1..((Len(s) - 1 - step) \div (0 - step)) |->
              s[Len(s) + (j - 1) * step]]

\* arr[rows, fv]: the entries of column fv at the given rows, in their order
Take(arr, rows, fv) == [j \in 1..Len(rows) |-> arr[rows[j]][fv]]

\* Variant of PlotRows: every step-th of all rows first, the rows with a
\* positive error among those second.
PlotRowsStrideFirst(col, step) ==
    SelectSeq(PySlice([i \in 1..MaxObj |-> i - 1], step),
              LAMBDA i : col[i] > 0)

\* The rows behind x[good_err, f][::samp]: the rows with a positive error
\* first, every step-th of those second.
PlotRows(col, step) == PySlice(Where(col), step)

\* Variant of ColorOf: the color is picked by the filter index.
ColorByFilter(nv) == args.color[(f % Len(args.color)) + 1]

\* color[n % len(color)]
ColorOf(nv) == args.color[(nv % Len(args.color)) + 1]

\* label[n]: the element, or an IndexError when n >= len(label)
LabelAt(nv) ==
    IF nv < Len(args.label.val)
    THEN [ok |-> TRUE, val |-> args.label.val[nv + 1]]
    ELSE [ok |-> FALSE, val |-> ""]

\* The label matplotlib gives a line plotted without label=: it starts with
\* an underscore, and Axes.legend() leaves such lines out.
NoLabel == "_line"

\* The entries of the legend Axes.legend() builds for a panel: the labels of
\* its lines, without those left at the default.
LegendEntries(series) ==
    SelectSeq([j \in 1..Len(series) |-> series[j].label],
              LAMBDA l : l # NoLabel)

\* Variant of LegendDue: the test f == 0 is missing.
LegendDueAnyFilter(fv, nv) ==
    /\ nv = PyLen(args.noise_file_list) - 1
    /\ ~args.label.isNone

\* (f == 0) and (n == len(noise_file_list) - 1) and (label is not None)
LegendDue(fv, nv) ==
    /\ fv = 0
    /\ nv = PyLen(args.noise_file_list) - 1
    /\ ~args.label.isNone

\* ----------------------------------------------------------------- actions
\* lines 48-56: read the SED grid
ReadSED ==
    /\ pc = "start"
    /\ IF args.sed_file.exists
       THEN /\ n_filter' = args.sed_file.filters
            /\ pc' = "figure"
            /\ err' = err
       ELSE /\ Raise("IOError", 50)
            /\ n_filter' = n_filter
    /\ UNCHANGED <<args, fig, catalogs, reads, n, f, noise_err, plot_idx,
                   plot_err, ax, axlabel, leg, label_reads, saved>>

\* lines 59-73: make the figure and start the loop over the noise files
MakeFigure ==
    /\ pc = "figure"
    /\ fig' = TRUE
    /\ ax' = [p \in Panels(n_filter) |-> <<>>]
    /\ axlabel' = [p \in Panels(n_filter) |-> ""]
    /\ leg' = [p \in Panels(n_filter) |-> <<>>]
    /\ catalogs' = AtLeast1d(args.noise_file_list)
    /\ n' = 0
    /\ pc' = "catalog"
    /\ UNCHANGED <<args, err, n_filter, reads, f, noise_err, plot_idx,
                   plot_err, label_reads, saved>>

\* lines 73-83: the next noise file, if any, is read
NextCatalog ==
    /\ pc = "catalog"
    /\ IF n < Len(catalogs)
       THEN IF FileExists(catalogs[n + 1])
            THEN /\ noise_err' =
                        [i \in 0..(MaxObj - 1) |->
                            [fv \in 0..(n_filter - 1) |->
                                NoiseErr(catalogs[n + 1], i, fv)]]
                 /\ reads' = reads + 1
                 /\ f' = 0
                 /\ pc' = "filter"
                 /\ err' = err
            ELSE /\ Raise("IOError", 78)
                 /\ UNCHANGED <<noise_err, reads, f>>
       ELSE /\ pc' = "save"
            /\ UNCHANGED <<err, noise_err, reads, f>>
    /\ UNCHANGED <<args, n_filter, fig, catalogs, n, plot_idx, plot_err, ax,
                   axlabel, leg, label_reads, saved>>

\* line 86: the next filter of the current catalog, or the next catalog
NextFilter ==
    /\ pc = "filter"
    /\ IF f < n_filter
       THEN /\ pc' = "select"
            /\ n' = n
       ELSE /\ pc' = "catalog"
            /\ n' = n + 1
    /\ UNCHANGED <<args, err, n_filter, fig, catalogs, reads, f, noise_err,
                   plot_idx, plot_err, ax, axlabel, leg, label_reads, saved>>

\* lines 88-93: trim the rows without a positive error, keep every samp-th
Select ==
    /\ pc = "select"
    /\ IF args.samp = 0
       THEN /\ Raise("ValueError", 90)
            /\ UNCHANGED <<plot_idx, plot_err>>
       ELSE LET col == [i \in 0..(MaxObj - 1) |-> noise_err[i][f]]
                good_err == Where(col)
            IN  /\ plot_idx' = PlotRows(col, args.samp)
                /\ plot_err' = PySlice(Take(noise_err, good_err, f), args.samp)
                /\ pc' = "bias"
                /\ err' = err
    /\ UNCHANGED <<args, n_filter, fig, catalogs, reads, n, f, noise_err, ax,
                   axlabel, leg, label_reads, saved>>

\* One panel of the current filter: ax[row, f].plot(...), then set_label.
PlotPanel(row, line, next) ==
    IF ~Ax2D
    THEN /\ Raise("IndexError", line)
         /\ UNCHANGED <<ax, axlabel, label_reads>>
    ELSE /\ ax' = [ax EXCEPT ![<<row, f>>] =
                      Append(@, [cat |-> n,
                                 color |-> ColorOf(n),
                                 label |-> NoLabel,
                                 idx |-> plot_idx,
                                 err |-> plot_err])]
         /\ IF args.label.isNone
            THEN /\ pc' = next
                 /\ UNCHANGED <<err, axlabel, label_reads>>
            ELSE /\ label_reads' = label_reads \cup {n}
                 /\ IF LabelAt(n).ok
                    THEN /\ axlabel' = [axlabel EXCEPT ![<<row, f>>] =
                                            LabelAt(n).val]
                         /\ pc' = next
                         /\ err' = err
                    ELSE /\ Raise("IndexError", line + 12)
                         /\ axlabel' = axlabel

\* lines 95-113: the bias panel
PlotBias ==
    /\ pc = "bias"
    /\ PlotPanel(0, 96, "error_panel")
    /\ UNCHANGED <<args, n_filter, fig, catalogs, reads, n, f, noise_err,
                   plot_idx, plot_err, leg, saved>>

\* lines 115-133: the error panel
PlotError ==
    /\ pc = "error_panel"
    /\ PlotPanel(1, 116, "completeness")
    /\ UNCHANGED <<args, n_filter, fig, catalogs, reads, n, f, noise_err,
                   plot_idx, plot_err, leg, saved>>

\* lines 135-153: the completeness panel
PlotCompl ==
    /\ pc = "completeness"
    /\ PlotPanel(2, 136, "legend")
    /\ UNCHANGED <<args, n_filter, fig, catalogs, reads, n, f, noise_err,
                   plot_idx, plot_err, leg, saved>>

\* lines 155-165: the legends of the bias and error panels, then on to the
\* next filter
Legend ==
    /\ pc = "legend"
    /\ IF LegendDue(f, n)
       THEN leg' = [leg EXCEPT
                      ![<<0, f>>] =
                          Append(@, [at |-> n,
                                     drawn |-> Len(ax[<<0, f>>]),
                                     entries |-> LegendEntries(ax[<<0, f>>])]),
                      ![<<1, f>>] =
                          Append(@, [at |-> n,
                                     drawn |-> Len(ax[<<1, f>>]),
                                     entries |-> LegendEntries(ax[<<1, f>>])])]
       ELSE leg' = leg
    /\ f' = f + 1
    /\ pc' = "filter"
    /\ UNCHANGED <<args, err, n_filter, fig, catalogs, reads, n, noise_err,
                   plot_idx, plot_err, ax, axlabel, label_reads, saved>>

\* lines 167-170: lay out and save the figure; the write itself may fail
Save ==
    /\ pc = "save"
    /\ \E written \in BOOLEAN :
          IF written
          THEN /\ saved' = saved + 1
               /\ pc' = "done"
               /\ err' = err
          ELSE /\ Raise("IOError", 169)
               /\ saved' = saved
    /\ UNCHANGED <<args, n_filter, fig, catalogs, reads, n, f, noise_err,
                   plot_idx, plot_err, ax, axlabel, leg, label_reads>>

Next ==
    \/ ReadSED
    \/ MakeFigure
    \/ NextCatalog
    \/ NextFilter
    \/ Select
    \/ PlotBias
    \/ PlotError
    \/ PlotCompl
    \/ Legend
    \/ Save

Spec == Init /\ [][Next]_vars

\* ------------------------------------------------------------ typing
TypeOK ==
    /\ pc \in {"start", "figure", "catalog", "filter", "select", "bias",
               "error_panel", "completeness", "legend", "save", "done",
               "error"}
    /\ n \in 0..MaxCat
    /\ f \in 0..MaxFilt
    /\ saved \in 0..1
    /\ (pc = "error") = (err # NoError)
    /\ Len(plot_err) = Len(plot_idx)
    /\ pc \in {"bias", "error_panel", "completeness", "legend"} =>
          \A j \in 1..Len(plot_idx) : plot_err[j] = noise_err[plot_idx[j]][f]

\* ------------------------------------------------- vocabulary of the claims
\* The series drawn so far, each with the panel that holds it.
Drawn ==
    UNION {{[panel |-> p, s |-> ax[p][j]] : j \in 1..Len(ax[p])} :
               p \in DOMAIN ax}

\* The rows of the catalog and filter column of a drawn series whose error is
\* positive, taken from the catalog file itself.
ValidRows(d) ==
    {i \in 0..(MaxObj - 1) :
        NoiseErr(catalogs[d.s.cat + 1], i, d.panel[2]) > 0}

\* The number of valid rows below row i: the position of i among them.
Rank(d, i) == Cardinality({v \in ValidRows(d) : v < i})

\* The number of catalogs the call names: the length of the list, or one
\* for a bare path string.
NumCatalogs ==
    IF args.noise_file_list.kind = "str"
    THEN 1
    ELSE Len(args.noise_file_list.val)

\* The panels that carry a legend.
LegendPanels == {p \in DOMAIN leg : leg[p] # <<>>}

\* The bias and error panels of filter index 0.
FirstColumnPair == {<<0, 0>>, <<1, 0>>}

\* Every panel of the 3 x F grid holds one series per catalog.
AllDrawn ==
    /\ DOMAIN ax = (0..2) \X (0..(args.sed_file.filters - 1))
    /\ \A p \in DOMAIN ax : Len(ax[p]) = NumCatalogs

\* ----------------------------------------------------------------------- C1
\* C1: every object index plotted in any panel (bias, error, completeness)
\* of column f for catalog n has error[idx, f] > 0 strictly, whatever the
\* stride and the arrays; no row with error <= 0 is ever plotted.
C1_PlottedErrorPositive ==
    \A d \in Drawn :
        /\ \A k \in 1..Len(d.s.idx) : d.s.idx[k] \in ValidRows(d)
        /\ \A k \in 1..Len(d.s.err) : d.s.err[k] > 0

\* A series with points is drawn in each of the three rows from a column that
\* also holds rows with error <= 0.
C1_Witness ==
    \A row \in 0..2 :
        \E d \in Drawn :
            /\ d.panel[1] = row
            /\ Len(d.s.idx) >= 1
            /\ Cardinality(ValidRows(d)) < MaxObj

\* ----------------------------------------------------------------------- C2
\* C2: for a positive stride k, the rows plotted for a catalog and filter
\* are valid[0], valid[k], valid[2k], ... in that order, valid being the
\* ascending list of rows with error > 0 of that catalog and filter: the
\* j-th plotted row is the valid row with exactly (j-1)*k valid rows below
\* it, and ceil(len(valid) / k) rows are plotted (all of them when k = 1).
C2_EveryKthValid ==
    args.samp > 0 =>
        \A d \in Drawn :
            /\ Len(d.s.idx) =
                   (Cardinality(ValidRows(d)) + args.samp - 1) \div args.samp
            /\ \A j \in 1..Len(d.s.idx) :
                   /\ d.s.idx[j] \in ValidRows(d)
                   /\ Rank(d, d.s.idx[j]) = (j - 1) * args.samp

\* With a stride of 2 or more, a series of two or more points is drawn, and
\* another from a column where some but not all rows are valid.
C2_Witness ==
    /\ args.samp >= 2
    /\ \E d \in Drawn : Len(d.s.idx) >= 2
    /\ \E d \in Drawn :
          /\ Len(d.s.idx) >= 1
          /\ Cardinality(ValidRows(d)) < MaxObj
          /\ d.s.idx[1] # 0

\* ----------------------------------------------------------------------- C3
\* C3 as stated: when the stride is larger than the number of valid rows of
\* a catalog and filter, exactly one point is plotted, the first valid one.
C3_OnePointWhenStrideExceeds ==
    \A d \in Drawn :
        args.samp > Cardinality(ValidRows(d)) =>
            /\ Len(d.s.idx) = 1
            /\ \A v \in ValidRows(d) : d.s.idx[1] <= v

\* C3 as amended: when the stride is larger than the number of valid rows
\* and there is at least one valid row, exactly one point is plotted, the
\* first valid one; when there is no valid row, no point is plotted.
C3_OnePointUnlessNoneValid ==
    \A d \in Drawn :
        args.samp > Cardinality(ValidRows(d)) =>
            IF ValidRows(d) = {}
            THEN d.s.idx = <<>>
            ELSE /\ Len(d.s.idx) = 1
                 /\ d.s.idx[1] \in ValidRows(d)
                 /\ \A v \in ValidRows(d) : d.s.idx[1] <= v

\* A series is drawn from a column with two or more valid rows, not starting
\* at row 0, with a stride larger than their number.
C3_Witness ==
    \E d \in Drawn :
        /\ Cardinality(ValidRows(d)) >= 2
        /\ args.samp > Cardinality(ValidRows(d))
        /\ Len(d.s.idx) = 1
        /\ d.s.idx[1] # 0

\* ----------------------------------------------------------------------- C4
\* C4: with labels supplied and a list of N >= 1 catalogs, a successful run
\* ends with a legend on exactly the bias and the error panel of filter 0,
\* each created once, while catalog N-1 is processed and after its series
\* was drawn in that panel (the panel then holds N series); no completeness
\* panel and no panel of a filter > 0 ever has a legend. With labels absent
\* no panel ever has a legend.
C4_LegendOnFirstColumnPair ==
    /\ args.label.isNone => LegendPanels = {}
    /\ args.noise_file_list.kind = "list" =>
          /\ \A p \in LegendPanels :
                /\ p \in FirstColumnPair
                /\ Len(leg[p]) = 1
                /\ leg[p][1].at = NumCatalogs - 1
                /\ leg[p][1].drawn = NumCatalogs
                /\ ax[p][leg[p][1].drawn].cat = NumCatalogs - 1
          /\ (pc = "done" /\ ~args.label.isNone /\ NumCatalogs >= 1) =>
                LegendPanels = FirstColumnPair

\* A run over a list of two or more catalogs with labels ends successfully
\* with its legends made.
C4_Witness ==
    /\ args.noise_file_list.kind = "list"
    /\ NumCatalogs >= 2
    /\ ~args.label.isNone
    /\ pc = "done"
    /\ LegendPanels # {}
    /\ args.sed_file.filters >= 2

\* ----------------------------------------------------------------------- C5
\* C5: with one label per catalog, the series of catalog n in the panels
\* that get a legend carries labels[n], and the legend built on the last
\* catalog has N entries, entry n showing labels[n].
C5_LegendEntryPerCatalog ==
    (/\ args.noise_file_list.kind = "list"
     /\ ~args.label.isNone
     /\ Len(args.label.val) = NumCatalogs
     /\ NumCatalogs >= 1
     /\ pc = "done") =>
        \A p \in FirstColumnPair :
            /\ Len(leg[p]) = 1
            /\ leg[p][1].entries = args.label.val
            /\ \A j \in 1..Len(ax[p]) : ax[p][j].label = args.label.val[j]

\* ----------------------------------------------------------------------- C6
\* C6: in every panel the j-th series is that of catalog j-1 (series are
\* added, never merged or replaced) and has the color
\* colors[(j-1) mod len(colors)]; after a successful run each of the 3 x F
\* panels holds exactly N series.
C6_OneSeriesPerCatalog ==
    /\ \A p \in DOMAIN ax :
          \A j \in 1..Len(ax[p]) :
              /\ ax[p][j].cat = j - 1
              /\ ax[p][j].color =
                     args.color[((j - 1) % Len(args.color)) + 1]
    /\ pc = "done" => AllDrawn

\* A successful run over more catalogs than colors, on two or more filters.
C6_Witness ==
    /\ pc = "done"
    /\ NumCatalogs >= 2
    /\ NumCatalogs > Len(args.color)
    /\ args.sed_file.filters >= 2

\* ----------------------------------------------------------------------- C7
\* C7: the image is saved at most once, and the save step is reached only
\* with every panel of every catalog and filter drawn and no error raised;
\* a run that ended in an error has saved nothing; with a nonexistent
\* sed_file no figure is made, no catalog read and no panel drawn.
C7_SaveOnlyAfterAllDrawn ==
    /\ saved <= 1
    /\ pc = "save" => (err = NoError /\ fig /\ AllDrawn /\ saved = 0)
    /\ saved = 1 =>
          /\ pc = "done"
          /\ err = NoError
          /\ AllDrawn
          /\ reads = NumCatalogs
    /\ err # NoError => (pc = "error" /\ saved = 0)
    /\ ~args.sed_file.exists =>
          /\ pc \in {"start", "error"}
          /\ ~fig
          /\ reads = 0
          /\ Drawn = {}
          /\ saved = 0

\* A run whose second noise file cannot be read ends in an error with the
\* first catalog already drawn.
C7_Witness ==
    /\ pc = "error"
    /\ err = [type |-> "IOError", line |-> 78]
    /\ Drawn # {}
    /\ saved = 0

\* ----------------------------------------------------------------------- C8
\* C8: a call with an empty noise_file_list ends in an error and saves no
\* image.
C8_EmptyListIsFatal ==
    (args.noise_file_list.kind = "list" /\ args.noise_file_list.val = <<>>) =>
        (pc # "done" /\ saved = 0)

\* ----------------------------------------------------------------------- C9
\* The inputs the contract allows apart from the labels: a readable SED grid,
\* a positive stride, readable noise files.
ContractInputs ==
    /\ args.sed_file.exists
    /\ args.samp > 0
    /\ \A j \in 1..Len(catalogs) : FileExists(catalogs[j])

\* C9: with fewer labels than catalogs (and a grid of at least one filter)
\* the run ends in an IndexError raised while catalog n = len(labels) is
\* processed, at filter 0, with the catalogs before it drawn, and nothing is
\* saved; with more labels than catalogs the labels beyond the catalogs are
\* never read and the run completes and saves the image.
C9_LabelLengthMismatch ==
    (/\ ~args.label.isNone
     /\ ContractInputs
     /\ pc \in {"done", "error"}
     /\ err.line # 169) =>
        IF Len(args.label.val) < NumCatalogs
        THEN /\ pc = "error"
             /\ err.type = "IndexError"
             /\ n = Len(args.label.val)
             /\ f = 0
             /\ \A p \in DOMAIN ax : Len(ax[p]) >= Len(args.label.val)
             /\ saved = 0
        ELSE Len(args.label.val) > NumCatalogs =>
                /\ pc = "done"
                /\ saved = 1
                /\ label_reads \subseteq 0..(NumCatalogs - 1)

\* ---------------------------------------------------------------------- C10
\* C10: a bare path string behaves like the one-element list of that path:
\* the one catalog is read, each panel gets its one series, and the legends
\* are on the panels where the list gets them (none without labels, the
\* bias and error panels of filter 0 with labels).
C10_StringLikeOneElementList ==
    (args.noise_file_list.kind = "str" /\ pc = "done") =>
        /\ catalogs = <<args.noise_file_list.val>>
        /\ reads = 1
        /\ AllDrawn
        /\ LegendPanels = IF args.label.isNone THEN {} ELSE FirstColumnPair

====
